---- MODULE Spec2Model ----
(***************************************************************************)
(* Model of src/bin/find.rs: the hash-cache-and-match pipeline             *)
(* (match_thumbs, load_phashes, load_phash) and the content bounds         *)
(* detector (detect_inner_image_bounds).                                   *)
(***************************************************************************)
EXTENDS Integers, Sequences, FiniteSets, TLC

(***************************************************************************)
(* Bounds of the model.                                                    *)
(***************************************************************************)
MaxRuns == 2        \* runs of match_thumbs over the same directories and cache
MaxThreads == 2     \* largest worker count the command is started with
MaxFaults == 1      \* I/O errors and interrupts the environment may cause
MaxPartial == 1     \* most characters a failed write_all leaves in the file
MaxDim == 8         \* largest image width and height given to the detector
MaxDark == 2        \* largest number of non-background pixels of such an image

(***************************************************************************)
(* Program constants.                                                      *)
(***************************************************************************)
WARN_DISTANCE_THRESHOLD == 10
HashBits == 64      \* HasherConfig::new(): an 8x8 hash, 8 bytes

(***************************************************************************)
(* ImageHash: a sequence of bits, a whole number of bytes long.  The       *)
(* hasher yields HashBits bits; a decoded cache entry has as many bytes as *)
(* its text encodes.                                                       *)
(***************************************************************************)
BitsAt(S) == [i \in 1..HashBits |-> IF i \in S THEN 1 ELSE 0]

MinOf(a, b) == IF a < b THEN a ELSE b
MaxOf(a, b) == IF a > b THEN a ELSE b

\* ImageHash::dist: the Hamming distance over the bytes both hashes have.
dist(a, b) ==
    Cardinality({i \in 1..MinOf(Len(a), Len(b)) : a[i] # b[i]})

(***************************************************************************)
(* The textual encoding of a hash (base64).  A character is its 6-bit      *)
(* value 0..63; PadChar is '='.                                            *)
(***************************************************************************)
PadChar == 64

Pow2(n) == IF n = 0 THEN 1 ELSE IF n = 1 THEN 2 ELSE IF n = 2 THEN 4
           ELSE IF n = 3 THEN 8 ELSE IF n = 4 THEN 16 ELSE 32

BitOrZero(h, i) == IF i <= Len(h) THEN h[i] ELSE 0

Sextet(h, k) ==
    LET b == 6 * (k - 1)
    IN  32 * BitOrZero(h, b + 1) + 16 * BitOrZero(h, b + 2)
        + 8 * BitOrZero(h, b + 3) + 4 * BitOrZero(h, b + 4)
        + 2 * BitOrZero(h, b + 5) + BitOrZero(h, b + 6)

\* Mutant of to_base64: the left-over bits of the last byte are dropped.
to_base64_short(h) ==
    LET nchars == Len(h) \div 6
        total  == 4 * ((nchars + 3) \div 4)
    IN  [k \in 1..total |-> IF k <= nchars THEN Sextet(h, k) ELSE PadChar]

\* ImageHash::to_base64: 6 bits per character, the last one zero-filled,
\* then '=' up to a multiple of four characters.
to_base64(h) ==
    LET nchars == (Len(h) + 5) \div 6
        total  == 4 * ((nchars + 3) \div 4)
    IN  [k \in 1..total |-> IF k <= nchars THEN Sextet(h, k) ELSE PadChar]

\* Number of trailing '=' of an encoding (at most two count as padding).
TrailingPads(s) ==
    IF Len(s) >= 2 /\ s[Len(s)] = PadChar /\ s[Len(s) - 1] = PadChar THEN 2
    ELSE IF Len(s) >= 1 /\ s[Len(s)] = PadChar THEN 1
    ELSE 0

\* Result<ImageHash>: Ok(hash), or an error.
Ok(h) == [ok |-> TRUE, hash |-> h]
Failure == [ok |-> FALSE, hash |-> <<>>]

\* ImageHash::from_base64: an error for a '=' before the end, a
\* length that no byte sequence encodes, or non-zero left-over bits; else the
\* bytes the text encodes.
from_base64(s) ==
    LET n      == Len(s) - TrailingPads(s)
        nbits  == 8 * ((6 * n) \div 8)
        bit(i) == (s[((i - 1) \div 6) + 1] \div Pow2(5 - ((i - 1) % 6))) % 2
    IN  IF \E k \in 1..n : s[k] > 63 THEN Failure
        ELSE IF n % 4 = 1 THEN Failure
        ELSE IF \E i \in (nbits + 1)..(6 * n) : bit(i) # 0 THEN Failure
        ELSE Ok([i \in 1..nbits |-> bit(i)])

(***************************************************************************)
(* The file system the command works on.                                   *)
(***************************************************************************)
Roles == {"fullsize", "thumbnail"}
FullNames == {"a.png", "b.png"}
ThumbNames == {"a.png"}
Names == FullNames \cup ThumbNames

\* An image file: what it shows, and whether a light border surrounds it.
\* "corrupt" is a file image::open cannot decode.
Corrupt == [content |-> "corrupt", border |-> FALSE]
FullImages == {[content |-> "near", border |-> FALSE], Corrupt}
ThumbImages == {[content |-> "blank", border |-> TRUE], Corrupt}

\* remove_borders: crop to the detected inner bounds.
remove_borders(img) == [img EXCEPT !.border = FALSE]

\* hasher.hash_image(img.thumbnail(..)): the hash of what the image shows; a
\* border left in place changes the hash.
ContentBits(c) ==
    CASE c = "blank" -> {}
      [] c = "dot"   -> {1}
      [] c = "near"  -> 1..3
      [] c = "far"   -> 62..64
      [] c = "ten"   -> 1..10
      [] c = "edge"  -> 1..11
      [] OTHER       -> {}
hash_image(img) ==
    BitsAt(ContentBits(img.content) \cup (IF img.border THEN 30..33 ELSE {}))

\* Lines 107-112: open the image, trim it when cleanup is set, hash it.
compute_phash(img, cleanup) ==
    hash_image(IF cleanup THEN remove_borders(img) ELSE img)

DirsOver(names, images) == UNION {[S -> images] : S \in SUBSET names}

\* fs::read_dir: every entry once, in an order the file system chooses.
read_dir(dir) ==
    LET S == DOMAIN dir
    IN  {p \in [1..Cardinality(S) -> S] : {p[i] : i \in DOMAIN p} = S}

\* A path of the cache: no file, or a file and its text.
NoFile == [exists |-> FALSE, text |-> <<>>]
File(text) == [exists |-> TRUE, text |-> text]
CachePaths == Roles \X Names

\* Mutant of lines 100-101: the file name is not pushed onto the path.
CacheFile_dir_only(r, file_name) == <<r, "a.png">>

\* Lines 100-101 with lines 159-160: <cache_root>/<role>/<file name>.
CacheFile(r, file_name) == <<r, file_name>>

VARIABLES
    fullsize_dir, thumbnail_dir,   \* name -> image, the two source directories
    num_threads,                   \* size of the worker pool
    cache,                         \* cache path -> text of the file, or NoFile
    output_dir,                    \* names of the files in the output directory
    runs,                          \* runs of the command started so far
    phase, role, result,           \* position of match_thumbs and how it ended
    source_paths, tasks,           \* per role: the listed files and their tasks
    fullsize_phashes, thumbs_phashes,
    ti,                            \* index of the thumbnail being matched
    matches, log, copied,          \* Matches made, review diagnostics, copies
    calls,                         \* cache path -> finished load_phash calls
    faults,                        \* I/O errors and interrupts so far
    computed,                      \* <<cache path, hash>> pairs hash_image gave
    image, bounds                  \* detector: the image and the rectangle

vars == <<fullsize_dir, thumbnail_dir, num_threads, cache, output_dir, runs,
          phase, role, result, source_paths, tasks, fullsize_phashes,
          thumbs_phashes, ti, matches, log, copied, calls, computed,
          faults, image, bounds>>

dirs == <<fullsize_dir, thumbnail_dir, num_threads>>

\* The environment makes a step fail (an I/O error) or interrupts the run.
Fault == faults < MaxFaults /\ faults' = faults + 1
NoFault == UNCHANGED faults
detector == <<image, bounds>>

NoHash == <<>>      \* the phash of a task that has none yet
Err == "Err"
NewTask == [pc |-> "pending", miss |-> FALSE, phash |-> NoHash,
            hashed |-> FALSE, writes |-> 0]
Active(t) == t.pc \in {"running", "hashed", "created"}

SourceDir(r) == IF r = "fullsize" THEN fullsize_dir ELSE thumbnail_dir
\* Lines 165-166: only the thumbnail batch is trimmed.
Cleanup(r) == r = "thumbnail"

RunInit ==
    /\ phase = "list"
    /\ role = "fullsize"
    /\ result = "none"
    /\ source_paths = [r \in Roles |-> <<>>]
    /\ tasks = [r \in Roles |-> <<>>]
    /\ fullsize_phashes = <<>>
    /\ thumbs_phashes = <<>>
    /\ ti = 1
    /\ matches = <<>>
    /\ log = <<>>
    /\ copied = <<>>

PipelineInit ==
    /\ fullsize_dir \in DirsOver(FullNames, FullImages)
    /\ thumbnail_dir \in DirsOver(ThumbNames, ThumbImages)
    /\ num_threads \in 1..MaxThreads
    /\ output_dir = {}
    /\ runs = 1
    /\ RunInit
    /\ calls = [p \in CachePaths |-> <<>>]
    /\ computed = {}
    /\ faults = 0
    /\ image = [w |-> 1, h |-> 1, dark |-> {}]
    /\ bounds = <<>>

Init ==
    /\ PipelineInit
    /\ cache = [p \in CachePaths |-> NoFile]

(***************************************************************************)
(* load_phashes, lines 125-147, and load_phash, lines 96-123.              *)
(***************************************************************************)
Running == result = "none"

SetTask(i, t) == tasks' = [tasks EXCEPT ![role][i] = t]
Path(i) == CacheFile(role, source_paths[role][i])

\* The call of task i returns: it is recorded with what it returned.
Finish(i, t, ret) ==
    /\ SetTask(i, [t EXCEPT !.pc = IF ret.ok THEN "ok" ELSE "failed"])
    /\ calls' = [calls EXCEPT ![Path(i)] =
                    Append(@, [miss |-> t.miss, hashed |-> t.hashed,
                               writes |-> t.writes, ret |-> ret])]

\* Lines 136-141: list the directory; an I/O error ends the run.
ListDir ==
    /\ Running /\ phase = "list"
    /\ \/ /\ \E p \in read_dir(SourceDir(role)) :
                /\ source_paths' = [source_paths EXCEPT ![role] = p]
                /\ tasks' = [tasks EXCEPT ![role] = [i \in DOMAIN p |-> NewTask]]
          /\ phase' = "load"
          /\ NoFault
          /\ UNCHANGED result
       \/ /\ Fault
          /\ result' = Err
          /\ UNCHANGED <<source_paths, tasks, phase>>
    /\ UNCHANGED <<dirs, detector, cache, output_dir, runs, role,
                   fullsize_phashes, thumbs_phashes, ti, matches, log, copied,
                   calls, computed>>

TaskFrame ==
    UNCHANGED <<dirs, detector, output_dir, runs, phase, role, result,
                source_paths, fullsize_phashes, thumbs_phashes, ti, matches,
                log, copied>>

\* Lines 142-144: a worker of the pool takes the next file.
Start(i) ==
    /\ Running /\ phase = "load"
    /\ tasks[role][i].pc = "pending"
    /\ Cardinality({j \in DOMAIN tasks[role] : Active(tasks[role][j])})
         < num_threads
    /\ SetTask(i, [tasks[role][i] EXCEPT !.pc = "running"])
    /\ UNCHANGED <<cache, calls, computed, faults>>
    /\ TaskFrame

\* Mutant of lines 103-104: a cache text that is no encoding of a full
\* hash is not used.
cached_phash_checked(encoded) ==
    IF from_base64(encoded).ok /\ Len(from_base64(encoded).hash) = HashBits
    THEN from_base64(encoded) ELSE Failure

\* Lines 103-104: what a cache hit returns for the text of the cache file.
cached_phash(encoded) == from_base64(encoded)

\* Lines 102-104: the cache file exists; read and decode it.
HitRead(i) ==
    /\ Running /\ phase = "load"
    /\ tasks[role][i].pc = "running"
    /\ cache[Path(i)].exists
    /\ \/ Fault /\ Finish(i, tasks[role][i], Failure)
       \/ /\ NoFault
          /\ LET ret == cached_phash(cache[Path(i)].text)
             IN  Finish(i, [tasks[role][i] EXCEPT !.phash = ret.hash], ret)
    /\ UNCHANGED <<cache, computed>>
    /\ TaskFrame

\* Lines 105-112: no cache file; open the image and hash it.
MissHash(i) ==
    LET img == SourceDir(role)[source_paths[role][i]]
        t   == [tasks[role][i] EXCEPT !.miss = TRUE]
    IN  /\ Running /\ phase = "load"
        /\ tasks[role][i].pc = "running"
        /\ ~cache[Path(i)].exists
        /\ \/ /\ IF img = Corrupt THEN NoFault ELSE Fault
              /\ Finish(i, t, Failure)
              /\ UNCHANGED computed
           \/ /\ img # Corrupt
              /\ NoFault
              /\ LET phash == compute_phash(img, Cleanup(role))
                 IN  /\ SetTask(i, [t EXCEPT !.pc = "hashed", !.phash = phash,
                                             !.hashed = TRUE])
                     /\ computed' = computed \cup {<<Path(i), phash>>}
              /\ UNCHANGED calls
        /\ UNCHANGED cache
        /\ TaskFrame

\* Line 114: File::create makes the cache file, empty.
Create(i) ==
    /\ Running /\ phase = "load"
    /\ tasks[role][i].pc = "hashed"
    /\ \/ /\ cache' = [cache EXCEPT ![Path(i)] = File(<<>>)]
          /\ SetTask(i, [tasks[role][i] EXCEPT !.pc = "created", !.writes = 1])
          /\ NoFault
          /\ UNCHANGED calls
       \/ /\ Fault
          /\ Finish(i, tasks[role][i], Failure)
          /\ UNCHANGED cache
    /\ UNCHANGED computed
    /\ TaskFrame

\* Line 115: write_all writes the encoding; on an I/O error a part of it.
Write(i) ==
    LET encoded == to_base64(tasks[role][i].phash)
    IN  /\ Running /\ phase = "load"
        /\ tasks[role][i].pc = "created"
        /\ \/ /\ cache' = [cache EXCEPT ![Path(i)] = File(encoded)]
              /\ Finish(i, tasks[role][i], Ok(tasks[role][i].phash))
              /\ NoFault
           \/ /\ Fault
              /\ \E k \in 0..MinOf(MaxPartial, Len(encoded) - 1) :
                    cache' = [cache EXCEPT
                                 ![Path(i)] = File(SubSeq(encoded, 1, k))]
              /\ Finish(i, tasks[role][i], Failure)
        /\ UNCHANGED computed
        /\ TaskFrame

\* Mutant of lines 142-146: the files that failed are skipped.
collect_skipping(ts, paths) ==
    LET good == SelectSeq([i \in DOMAIN ts |-> i], LAMBDA i : ts[i].pc = "ok")
    IN  [ok |-> TRUE,
         phashes |-> [k \in DOMAIN good |->
                        [file_name |-> paths[good[k]],
                         phash |-> ts[good[k]].phash]]]

\* Lines 142-146: collect() into Result<Vec<_>>: an error if a task gave
\* one, else every task's PathPhash in the order of source_paths.
collect(ts, paths) ==
    IF \E i \in DOMAIN ts : ts[i].pc = "failed"
    THEN [ok |-> FALSE, phashes |-> <<>>]
    ELSE [ok |-> TRUE,
          phashes |-> [i \in DOMAIN ts |->
                         [file_name |-> paths[i], phash |-> ts[i].phash]]]

\* Lines 145-146 and 165-166: the batch is over once no task runs and every
\* file was taken, or one failed and the rest was dropped.
Collect ==
    LET ts == tasks[role]
        collected == collect(ts, source_paths[role])
        phashes == collected.phashes
    IN  /\ Running /\ phase = "load"
        /\ \A i \in DOMAIN ts : ~Active(ts[i])
        /\ \/ \A i \in DOMAIN ts : ts[i].pc # "pending"
           \/ \E i \in DOMAIN ts : ts[i].pc = "failed"
        /\ IF ~collected.ok
           THEN /\ result' = Err
                /\ UNCHANGED <<phase, role, fullsize_phashes, thumbs_phashes>>
           ELSE /\ UNCHANGED result
                /\ IF role = "fullsize"
                   THEN /\ fullsize_phashes' = phashes
                        /\ role' = "thumbnail"
                        /\ phase' = "list"
                        /\ UNCHANGED thumbs_phashes
                   ELSE /\ thumbs_phashes' = phashes
                        /\ phase' = "match"
                        /\ UNCHANGED <<role, fullsize_phashes>>
        /\ UNCHANGED <<dirs, detector, cache, output_dir, runs, source_paths,
                       tasks, ti, matches, log, copied, calls, computed,
                       faults>>

(***************************************************************************)
(* The matching loop of match_thumbs, lines 172-214.                       *)
(***************************************************************************)
\* Option<Match>: <<>> is None, <<m>> is Some(m).
None == <<>>
Some(m) == <<m>>

\* Lines 175-180.
new_output(thumb_phash, fullsize_phash) ==
    [fullsize |-> fullsize_phash.file_name,
     thumb    |-> thumb_phash.file_name,
     distance |-> dist(thumb_phash.phash, fullsize_phash.phash)]

\* Mutants of line 184: the larger distance wins; a tie replaces.
replaces_larger(new, old) == new.distance > old.distance
replaces_on_tie(new, old) == new.distance <= old.distance

\* Line 184: the comparison that lets a candidate replace the one kept.
replaces(new, old) == new.distance < old.distance

\* Lines 182-189.
keep(output, new) ==
    IF output = None THEN Some(new)
    ELSE Some(IF replaces(new, output[1]) THEN new ELSE output[1])

\* Lines 173-190: the scan of the full-size list from index k on.
RECURSIVE scan(_, _, _, _)
scan(thumb_phash, phashes, k, output) ==
    IF k > Len(phashes) THEN output
    ELSE scan(thumb_phash, phashes, k + 1,
              keep(output, new_output(thumb_phash, phashes[k])))

\* Mutant of line 198: the threshold itself is flagged.
needs_review_at(output) == output.distance >= WARN_DISTANCE_THRESHOLD

\* Line 198.
needs_review(output) == output.distance > WARN_DISTANCE_THRESHOLD

\* Mutant of line 192: no candidate is an error.
body_result_strict(output, copy_ok) ==
    IF output = None THEN Err
    ELSE IF copy_ok THEN "none" ELSE Err

\* Lines 192 and 210: how the loop body ends for the Match found, given
\* whether fs::copy succeeded: "none" goes on to the next thumbnail.
body_result(output, copy_ok) ==
    IF output = None THEN "none"
    ELSE IF copy_ok THEN "none" ELSE Err

\* Lines 206-210: the file name copied for a Match.
copy_name(m) == m.fullsize

\* Lines 172-212: one iteration of the loop over the thumbnails.
MatchOne ==
    /\ Running /\ phase = "match"
    /\ ti <= Len(thumbs_phashes)
    /\ LET output == scan(thumbs_phashes[ti], fullsize_phashes, 1, None)
       IN  \E copy_ok \in BOOLEAN :
             /\ IF copy_ok \/ output = None THEN NoFault ELSE Fault
             /\ result' = body_result(output, copy_ok)
             /\ IF output = None
                THEN UNCHANGED <<matches, log, output_dir, copied>>
                ELSE /\ matches' = Append(matches, output[1])
                     /\ log' = IF needs_review(output[1])
                               THEN Append(log, output[1]) ELSE log
                     /\ IF copy_ok
                        THEN /\ output_dir' =
                                  output_dir \cup {copy_name(output[1])}
                             /\ copied' = Append(copied, copy_name(output[1]))
                        ELSE UNCHANGED <<output_dir, copied>>
    /\ ti' = ti + 1
    /\ UNCHANGED <<dirs, detector, cache, runs, phase, role, source_paths,
                   tasks, fullsize_phashes, thumbs_phashes, calls, computed>>

\* Line 214.
Return ==
    /\ Running /\ phase = "match"
    /\ ti > Len(thumbs_phashes)
    /\ result' = "Ok"
    /\ NoFault
    /\ UNCHANGED <<dirs, detector, cache, output_dir, runs, phase, role,
                   source_paths, tasks, fullsize_phashes, thumbs_phashes, ti,
                   matches, log, copied, calls, computed>>

\* The process is interrupted: whatever is on disk stays as it is.
Kill ==
    /\ Running
    /\ result' = "Killed"
    /\ Fault
    /\ UNCHANGED <<dirs, detector, cache, output_dir, runs, phase, role,
                   source_paths, tasks, fullsize_phashes, thumbs_phashes, ti,
                   matches, log, copied, calls, computed>>

\* The command is run again on the same directories, cache and output.
Rerun ==
    /\ ~Running
    /\ runs < MaxRuns
    /\ runs' = runs + 1
    /\ phase' = "list"
    /\ role' = "fullsize"
    /\ result' = "none"
    /\ source_paths' = [r \in Roles |-> <<>>]
    /\ tasks' = [r \in Roles |-> <<>>]
    /\ fullsize_phashes' = <<>>
    /\ thumbs_phashes' = <<>>
    /\ ti' = 1
    /\ matches' = <<>>
    /\ log' = <<>>
    /\ copied' = <<>>
    /\ UNCHANGED <<dirs, detector, cache, output_dir, calls, computed,
                   faults>>

Next ==
    \/ ListDir
    \/ \E i \in DOMAIN tasks[role] : Start(i)
    \/ \E i \in DOMAIN tasks[role] : HitRead(i)
    \/ \E i \in DOMAIN tasks[role] : MissHash(i)
    \/ \E i \in DOMAIN tasks[role] : Create(i)
    \/ \E i \in DOMAIN tasks[role] : Write(i)
    \/ Collect
    \/ MatchOne
    \/ Return
    \/ Kill
    \/ Rerun

Spec == Init /\ [][Next]_vars

(***************************************************************************)
(* The same command started on a cache that someone filled in before: the *)
(* entry of a.png, a file of the directory of one role, holds the encoding *)
(* of a hash that no image of the run has.                                 *)
(***************************************************************************)
StaleText == to_base64(BitsAt(ContentBits("far")))

InitPre ==
    /\ PipelineInit
    /\ \E r \in Roles :
          /\ "a.png" \in DOMAIN SourceDir(r)
          /\ cache = [p \in CachePaths |->
                        IF p = <<r, "a.png">> THEN File(StaleText) ELSE NoFile]

SpecPre == InitPre /\ [][Next]_vars

(***************************************************************************)
(* The matching loop on its own: the state at line 172 of a run in which   *)
(* every hash came from the cache, for any two lists of hashes.  File      *)
(* names are numbers here.                                                 *)
(***************************************************************************)
MaxFull == 3        \* longest full-size list
MaxThumbs == 2      \* longest thumbnail list

FullHashes == {BitsAt(ContentBits(c)) : c \in {"near", "far", "ten", "edge"}}
ThumbHashes == {BitsAt(ContentBits(c)) : c \in {"blank", "dot"}}

\* Lists of hashes of length at most n, named 1..k in list order or reversed.
PhashLists(hashes, n) ==
    UNION {{[i \in 1..k |->
               [file_name |-> IF rev THEN k + 1 - i ELSE i, phash |-> hs[i]]] :
            hs \in [1..k -> hashes], rev \in IF k > 1 THEN BOOLEAN ELSE {FALSE}} :
           k \in 0..n}

FullLists == PhashLists(FullHashes, MaxFull)
ThumbLists == PhashLists(ThumbHashes, MaxThumbs)
MatchNames == 1..MaxOf(MaxFull, MaxThumbs)

Plain == [content |-> "blank", border |-> FALSE]

\* The cache file that served the hash of file n of the list, if n is in it.
ServedFrom(list, n) ==
    LET at == {i \in DOMAIN list : list[i].file_name = n}
    IN  IF at = {} THEN NoFile
        ELSE File(to_base64(list[CHOOSE i \in at : TRUE].phash))

InitMatch ==
    /\ fullsize_phashes \in FullLists
    /\ thumbs_phashes \in ThumbLists
    /\ fullsize_dir = [n \in 1..Len(fullsize_phashes) |-> Plain]
    /\ thumbnail_dir = [n \in 1..Len(thumbs_phashes) |-> Plain]
    /\ num_threads = 1
    /\ LET lists == [r \in Roles |-> IF r = "fullsize" THEN fullsize_phashes
                                     ELSE thumbs_phashes]
       IN  /\ source_paths =
                 [r \in Roles |->
                    [i \in DOMAIN lists[r] |-> lists[r][i].file_name]]
           /\ tasks =
                 [r \in Roles |->
                    [i \in DOMAIN lists[r] |->
                       [NewTask EXCEPT !.pc = "ok",
                                       !.phash = lists[r][i].phash]]]
           /\ cache = [p \in Roles \X MatchNames |->
                          ServedFrom(lists[p[1]], p[2])]
           /\ calls = [p \in Roles \X MatchNames |-> <<>>]
    /\ output_dir = {}
    /\ runs = 1
    /\ phase = "match"
    /\ role = "thumbnail"
    /\ result = "none"
    /\ ti = 1
    /\ matches = <<>>
    /\ log = <<>>
    /\ copied = <<>>
    /\ computed = {}
    /\ faults = 0
    /\ image = [w |-> 1, h |-> 1, dark |-> {}]
    /\ bounds = <<>>

NextMatch == MatchOne \/ Return

SpecMatch == InitMatch /\ [][NextMatch]_vars

(***************************************************************************)
(* detect_inner_image_bounds, lines 18-76.  An image is its width, its     *)
(* height and the coordinates of its pixels that are not background.       *)
(***************************************************************************)
WHITE_THRESHOLD == 230
WhitePixel == <<255, 255, 255, 255>>
DarkPixel == <<231, 231, 230, 255>>

\* Lines 18-21.
is_pixel_white(pixel) ==
    /\ pixel[1] > WHITE_THRESHOLD
    /\ pixel[2] > WHITE_THRESHOLD
    /\ pixel[3] > WHITE_THRESHOLD

get_pixel(img, x, y) == IF <<x, y>> \in img.dark THEN DarkPixel ELSE WhitePixel

NotFound == -1

\* Lines 42-47: x from `from` up to `to` (excluded), stopping at the first
\* pixel of row y that is not white.
RECURSIVE first_in_row_up(_, _, _, _)
first_in_row_up(img, y, from, to) ==
    IF from >= to THEN NotFound
    ELSE IF ~is_pixel_white(get_pixel(img, from, y)) THEN from
    ELSE first_in_row_up(img, y, from + 1, to)

\* Lines 49-54: x from `from` down to `to` (included).
RECURSIVE first_in_row_down(_, _, _, _)
first_in_row_down(img, y, from, to) ==
    IF from < to THEN NotFound
    ELSE IF ~is_pixel_white(get_pixel(img, from, y)) THEN from
    ELSE first_in_row_down(img, y, from - 1, to)

\* Lines 60-65 and 67-72: the same along column x.
RECURSIVE first_in_col_up(_, _, _, _)
first_in_col_up(img, x, from, to) ==
    IF from >= to THEN NotFound
    ELSE IF ~is_pixel_white(get_pixel(img, x, from)) THEN from
    ELSE first_in_col_up(img, x, from + 1, to)

RECURSIVE first_in_col_down(_, _, _, _)
first_in_col_down(img, x, from, to) ==
    IF from < to THEN NotFound
    ELSE IF ~is_pixel_white(get_pixel(img, x, from)) THEN from
    ELSE first_in_col_down(img, x, from - 1, to)

\* Lines 44, 62: min_x = min(min_x, x_check) when the scan found a pixel.
lower(bound, found) == IF found = NotFound THEN bound ELSE MinOf(bound, found)
\* Lines 51, 69.
raise(bound, found) == IF found = NotFound THEN bound ELSE MaxOf(bound, found)

\* Mutant of lines 28-37: the quarter points of the side itself.
checks_of_side(n) == <<n \div 4, (n * 2) \div 4, (n * 3) \div 4>>

\* Lines 28-37: the three check positions along a side of length n.
checks(n) == <<n \div 4, (n \div 4) * 2, (n \div 4) * 3>>

\* Lines 39-55: min_x after the rows checks[k..3].
RECURSIVE min_x_from(_, _, _)
min_x_from(img, k, min_x) ==
    IF k > 3 THEN min_x
    ELSE min_x_from(img, k + 1,
           lower(min_x, first_in_row_up(img, checks(img.h)[k], 0,
                                        checks(img.w)[1])))

RECURSIVE max_x_from(_, _, _)
max_x_from(img, k, max_x) ==
    IF k > 3 THEN max_x
    ELSE max_x_from(img, k + 1,
           raise(max_x, first_in_row_down(img, checks(img.h)[k], img.w - 1,
                                          checks(img.w)[3])))

\* Lines 57-73.
RECURSIVE min_y_from(_, _, _)
min_y_from(img, k, min_y) ==
    IF k > 3 THEN min_y
    ELSE min_y_from(img, k + 1,
           lower(min_y, first_in_col_up(img, checks(img.w)[k], 0,
                                        checks(img.h)[1])))

RECURSIVE max_y_from(_, _, _)
max_y_from(img, k, max_y) ==
    IF k > 3 THEN max_y
    ELSE max_y_from(img, k + 1,
           raise(max_y, first_in_col_down(img, checks(img.w)[k], img.h - 1,
                                          checks(img.h)[3])))

\* Lines 24-76.
detect_inner_image_bounds(img) ==
    LET min_x == min_x_from(img, 1, img.w \div 2)
        max_x == max_x_from(img, 1, img.w \div 2)
        min_y == min_y_from(img, 1, img.h \div 2)
        max_y == max_y_from(img, 1, img.h \div 2)
    IN  <<min_x, min_y, max_x - min_x, max_y - min_y>>

InitBounds ==
    /\ \E w \in 1..MaxDim, h \in 1..MaxDim : image = [w |-> w, h |-> h, dark |-> {}]
    /\ bounds = <<>>
    /\ fullsize_dir = <<>>
    /\ thumbnail_dir = <<>>
    /\ num_threads = 1
    /\ cache = [p \in CachePaths |-> NoFile]
    /\ output_dir = {}
    /\ runs = 1
    /\ RunInit
    /\ calls = [p \in CachePaths |-> <<>>]
    /\ computed = {}
    /\ faults = 0

\* The image has one more pixel that is not background (the pixels are
\* given in raster order, so that each image is built in one way).
Paint(x, y) ==
    /\ bounds = <<>>
    /\ Cardinality(image.dark) < MaxDark
    /\ \A p \in image.dark : p[2] * image.w + p[1] < y * image.w + x
    /\ image' = [image EXCEPT !.dark = @ \cup {<<x, y>>}]
    /\ UNCHANGED <<bounds, dirs, cache, output_dir, runs, phase, role, result,
                   source_paths, tasks, fullsize_phashes, thumbs_phashes, ti,
                   matches, log, copied, calls, computed, faults>>

\* Line 79: the detector is applied to the image.
Detect ==
    /\ bounds = <<>>
    /\ bounds' = detect_inner_image_bounds(image)
    /\ UNCHANGED <<image, dirs, cache, output_dir, runs, phase, role, result,
                   source_paths, tasks, fullsize_phashes, thumbs_phashes, ti,
                   matches, log, copied, calls, computed, faults>>

NextBounds ==
    \/ \E x \in 0..(image.w - 1) : \E y \in 0..(image.h - 1) : Paint(x, y)
    \/ Detect

SpecBounds == InitBounds /\ [][NextBounds]_vars

(***************************************************************************)
(* Claims about the matching loop, under SpecMatch.                        *)
(***************************************************************************)
\* The distance of thumbnail t to each candidate, by index in the list.
Distances(t) ==
    [j \in DOMAIN fullsize_phashes |->
        dist(t.phash, fullsize_phashes[j].phash)]
\* The indices of the candidates at the minimum distance, and the first.
AtMinimum(t) ==
    LET d == Distances(t)
    IN  {j \in DOMAIN d : \A k \in DOMAIN d : d[j] <= d[k]}
FirstAtMinimum(t) ==
    LET A == AtMinimum(t) IN CHOOSE j \in A : \A k \in A : j <= k

\* C1: with a non-empty full-size list, every thumbnail handled so far has
\* exactly one Match, the k-th Match is the k-th thumbnail's, it names a
\* full-size file at the distance it reports, and that distance is the
\* minimum of dist over the whole list: no candidate is strictly nearer.
C1_MinimumDistance ==
    fullsize_phashes # <<>> =>
        /\ Len(matches) = ti - 1
        /\ \A k \in DOMAIN matches :
              LET t == thumbs_phashes[k]
                  d == Distances(t)
              IN  /\ matches[k].thumb = t.file_name
                  /\ \E j \in DOMAIN d :
                        /\ fullsize_phashes[j].file_name = matches[k].fullsize
                        /\ d[j] = matches[k].distance
                  /\ \A j \in DOMAIN d : matches[k].distance <= d[j]

\* Every thumbnail of a two-thumbnail run is matched, one of them to a
\* candidate that is not the first of three in the list.
C1_Witness ==
    /\ result = "Ok"
    /\ Len(fullsize_phashes) = 3
    /\ Len(matches) = 2
    /\ \E k \in DOMAIN matches :
          /\ matches[k].fullsize # fullsize_phashes[1].file_name
          /\ matches[k].distance
               < dist(thumbs_phashes[k].phash, fullsize_phashes[1].phash)

\* C2: the Match names the candidate at the smallest index among those at
\* the minimum distance.
C2_FirstMinimumWins ==
    \A k \in DOMAIN matches :
        matches[k].fullsize
          = fullsize_phashes[FirstAtMinimum(thumbs_phashes[k])].file_name

\* Two candidates tie at the minimum, behind a candidate that is farther,
\* and the earlier of the two has the larger file name.
C2_Witness ==
    \E k \in DOMAIN matches :
        LET A == AtMinimum(thumbs_phashes[k])
        IN  /\ Cardinality(A) >= 2
            /\ 1 \notin A
            /\ \E j \in A :
                  /\ j # FirstAtMinimum(thumbs_phashes[k])
                  /\ fullsize_phashes[j].file_name < matches[k].fullsize

\* C3: with an empty full-size list no Match is made and no file is copied,
\* whatever the number of thumbnails, and the run goes on until it returns
\* Ok: it never ends in an error and never stops short of returning.
C3_EmptyFullsize ==
    fullsize_phashes = <<>> =>
        /\ matches = <<>>
        /\ copied = <<>>
        /\ output_dir = {}
        /\ result \in {"none", "Ok"}
        /\ result = "none" => ENABLED NextMatch

\* The run over two thumbnails and no full-size file has returned Ok.
C3_Witness ==
    /\ fullsize_phashes = <<>>
    /\ Len(thumbs_phashes) = 2
    /\ ti = 3
    /\ result = "Ok"

Logged(m) == \E k \in DOMAIN log : log[k] = m

\* C8: the review diagnostic is emitted for a Match exactly when its
\* distance is above 10, and every Match is copied under the full-size
\* file's own name whether or not it was flagged (a Match is without its
\* copy only if fs::copy itself failed, which ends the run at that Match).
C8_ReviewIsAdvisory ==
    /\ \A k \in DOMAIN matches : Logged(matches[k]) <=> matches[k].distance > 10
    /\ \A k \in DOMAIN log : \E j \in DOMAIN matches : matches[j] = log[k]
    /\ \A k \in DOMAIN matches :
          (k < Len(matches) \/ result # Err) =>
              /\ k \in DOMAIN copied
              /\ copied[k] = matches[k].fullsize
              /\ matches[k].fullsize \in output_dir

\* One Match at distance 11 was flagged and copied, another at distance 10
\* was copied without the diagnostic.
C8_Witness ==
    /\ result = "Ok"
    /\ \E k \in DOMAIN matches :
          /\ matches[k].distance = 11
          /\ Logged(matches[k])
          /\ copied[k] = matches[k].fullsize
    /\ \E k \in DOMAIN matches :
          /\ matches[k].distance = 10
          /\ ~Logged(matches[k])
          /\ copied[k] = matches[k].fullsize

(***************************************************************************)
(* Claims about the cache and the batches, under Spec and SpecPre.         *)
(***************************************************************************)
Terminal(t) == t.pc \in {"ok", "failed"}

\* C4: a load_phash call that finds its cache file ends without hashing the
\* image and without creating or changing any cache file, and unless the
\* read itself fails it returns the decoding of the file's text (an error
\* if the text decodes to none), whatever the image would hash to.
C4_CacheHit ==
    [][\A i \in DOMAIN tasks[role] :
          (/\ tasks[role][i].pc = "running"
           /\ cache[Path(i)].exists
           /\ role' = role
           /\ i \in DOMAIN tasks'[role]
           /\ Terminal(tasks'[role][i]))
          => /\ cache' = cache
             /\ computed' = computed
             /\ ~tasks'[role][i].hashed
             /\ tasks'[role][i].writes = 0
             /\ Len(calls'[Path(i)]) = Len(calls[Path(i)]) + 1
             /\ faults' = faults
                  => /\ calls'[Path(i)][Len(calls'[Path(i)])].ret
                          = from_base64(cache[Path(i)].text)
                     /\ from_base64(cache[Path(i)].text).ok
                          => /\ tasks'[role][i].pc = "ok"
                             /\ tasks'[role][i].phash
                                  = from_base64(cache[Path(i)].text).hash]_vars

\* A full-size file whose cache entry was filled in with another image's
\* hash is in the list with that hash, and was never hashed.
C4_Witness ==
    \E i \in DOMAIN fullsize_phashes :
        LET e == fullsize_phashes[i]
        IN  /\ role = "thumbnail"
            /\ fullsize_dir[e.file_name] # Corrupt
            /\ e.phash # compute_phash(fullsize_dir[e.file_name], FALSE)
            /\ e.phash = BitsAt(ContentBits("far"))
            /\ ~tasks["fullsize"][i].hashed
            /\ computed = {}

\* C5: of two successive finished calls for one cache path, the first
\* starting without a cache file and both returning a hash, both return the
\* same hash, the first hashed the image and created one cache file, the
\* second did neither.
C5_SecondCallIsHit ==
    \A p \in DOMAIN calls :
        \A k \in 1..(Len(calls[p]) - 1) :
            (calls[p][k].miss /\ calls[p][k].ret.ok /\ calls[p][k + 1].ret.ok)
            => /\ calls[p][k + 1].ret = calls[p][k].ret
               /\ calls[p][k].hashed
               /\ calls[p][k].writes = 1
               /\ ~calls[p][k + 1].hashed
               /\ calls[p][k + 1].writes = 0
               /\ ~calls[p][k + 1].miss

\* A thumbnail was hashed (with its border trimmed) in one run and served
\* from the cache in the next.
C5_Witness ==
    \E n \in ThumbNames :
        LET c == calls[CacheFile("thumbnail", n)]
        IN  /\ Len(c) = 2
            /\ c[1].miss /\ c[1].ret.ok
            /\ c[2].ret.ok
            /\ Len(c[1].ret.hash) = HashBits

PhashesOf(r) == IF r = "fullsize" THEN fullsize_phashes ELSE thumbs_phashes
Returned(r) ==
    \/ r = "fullsize" /\ role = "thumbnail"
    \/ r = "thumbnail" /\ role = "thumbnail" /\ phase = "match"

\* C6: a batch in which a file failed never returns a list, and the run does
\* not succeed; a batch that returned a list has every task succeeded and
\* one entry per directory entry; an error of load_phashes after the listing
\* comes from a failed file.
C6_FailFast ==
    \A r \in Roles :
        LET ts == tasks[r]
        IN  /\ (\E i \in DOMAIN ts : ts[i].pc = "failed")
                 => /\ ~Returned(r)
                    /\ PhashesOf(r) = <<>>
                    /\ result # "Ok"
                    /\ phase = "load" /\ role = r
            /\ Returned(r)
                 => /\ \A i \in DOMAIN ts : ts[i].pc = "ok"
                    /\ Len(PhashesOf(r)) = Cardinality(DOMAIN SourceDir(r))
                    /\ {PhashesOf(r)[i].file_name : i \in DOMAIN PhashesOf(r)}
                         = DOMAIN SourceDir(r)
            /\ (role = r /\ phase = "load" /\ result = Err)
                 => \E i \in DOMAIN ts : ts[i].pc = "failed"

\* One file of the batch failed after the other had succeeded: the batch
\* ended in an error and the hash that was computed is in no list.
C6_Witness ==
    /\ result = Err
    /\ phase = "load"
    /\ \E i, j \in DOMAIN tasks[role] :
          tasks[role][i].pc = "failed" /\ tasks[role][j].pc = "ok"
    /\ PhashesOf(role) = <<>>

ActiveTasks ==
    {x \in Roles \X (1..Cardinality(Names)) :
        x[2] \in DOMAIN tasks[x[1]] /\ Active(tasks[x[1]][x[2]])}
TaskFile(x) == CacheFile(x[1], source_paths[x[1]][x[2]])

\* C7: no two tasks active at once have the same cache file: the active
\* tasks have pairwise distinct cache files, a thumbnail task exists only
\* once every full-size task has succeeded, and the two roles' cache files
\* differ for the same file name.
C7_NoSharedCacheFile ==
    /\ \A x, y \in ActiveTasks : x # y => TaskFile(x) # TaskFile(y)
    /\ tasks["thumbnail"] # <<>>
         => \A i \in DOMAIN tasks["fullsize"] : tasks["fullsize"][i].pc = "ok"
    /\ \A n \in Names : CacheFile("fullsize", n) # CacheFile("thumbnail", n)

\* Two tasks of the full-size batch are between File::create and write_all
\* at the same time.
C7_Witness ==
    \E i, j \in DOMAIN tasks["fullsize"] :
        /\ i # j
        /\ tasks["fullsize"][i].pc = "created"
        /\ tasks["fullsize"][j].pc = "created"

\* C10 (as claimed): whenever no run is under way, every cache file holds
\* the complete encoding of a hash that was computed for its file.
C10_CacheIntegrity ==
    ~Running =>
        \A p \in DOMAIN cache :
            cache[p].exists =>
                \E c \in computed : c[1] = p /\ cache[p].text = to_base64(c[2])

(***************************************************************************)
(* Claims about the detector, under SpecBounds.                            *)
(***************************************************************************)
Dark(img, x, y) == <<x, y>> \in img.dark
SetMin(S) == CHOOSE a \in S : \A b \in S : a <= b
SetMax(S) == CHOOSE a \in S : \A b \in S : a >= b
Sampled(n) == {(n \div 4) * k : k \in 1..3}

\* The first non-background column of each sampled row, scanning x from 0
\* up to W/4, and scanning x from W down to the third quarter mark.
LeftFinds(img) ==
    {SetMin({x \in 0..(img.w \div 4 - 1) : Dark(img, x, y)}) :
       y \in {r \in Sampled(img.h) :
                \E x \in 0..(img.w \div 4 - 1) : Dark(img, x, r)}}
RightFinds(img) ==
    {SetMax({x \in ((img.w \div 4) * 3)..(img.w - 1) : Dark(img, x, y)}) :
       y \in {r \in Sampled(img.h) :
                \E x \in ((img.w \div 4) * 3)..(img.w - 1) : Dark(img, x, r)}}
\* The same along the sampled columns.
TopFinds(img) ==
    {SetMin({y \in 0..(img.h \div 4 - 1) : Dark(img, x, y)}) :
       x \in {c \in Sampled(img.w) :
                \E y \in 0..(img.h \div 4 - 1) : Dark(img, c, y)}}
BottomFinds(img) ==
    {SetMax({y \in ((img.h \div 4) * 3)..(img.h - 1) : Dark(img, x, y)}) :
       x \in {c \in Sampled(img.w) :
                \E y \in ((img.h \div 4) * 3)..(img.h - 1) : Dark(img, c, y)}}

MinOr(S, default) == IF S = {} THEN default ELSE SetMin(S)
MaxOr(S, default) == IF S = {} THEN default ELSE SetMax(S)

ClaimedBounds(img) ==
    LET min_x == MinOr(LeftFinds(img), img.w \div 2)
        max_x == MaxOr(RightFinds(img), img.w \div 2)
        min_y == MinOr(TopFinds(img), img.h \div 2)
        max_y == MaxOr(BottomFinds(img), img.h \div 2)
    IN  <<min_x, min_y, max_x - min_x, max_y - min_y>>

\* C9 (as claimed): for every W, H >= 1 the result is (min_x, min_y,
\* max_x - min_x, max_y - min_y) with min_x the least column found from the
\* left, max_x the greatest column found from the right, each W/2 if no
\* sampled row finds one, and min_y, max_y likewise.
C9_AsClaimed ==
    bounds # <<>> => bounds = ClaimedBounds(image)

AmendedBounds(img) ==
    LET min_x == MinOr(LeftFinds(img), img.w \div 2)
        max_x == MaxOr(RightFinds(img) \cup {img.w \div 2}, img.w \div 2)
        min_y == MinOr(TopFinds(img), img.h \div 2)
        max_y == MaxOr(BottomFinds(img) \cup {img.h \div 2}, img.h \div 2)
    IN  <<min_x, min_y, max_x - min_x, max_y - min_y>>

\* C9 (amended): as claimed, except that max_x is the greatest of W/2 and
\* the columns found from the right, and max_y the greatest of H/2 and the
\* rows found from the bottom; the rectangle never has a negative side, and
\* an all-background image gives (W/2, H/2, 0, 0).
C9_Amended ==
    bounds # <<>> =>
        /\ bounds = AmendedBounds(image)
        /\ bounds[3] >= 0 /\ bounds[4] >= 0
        /\ image.dark = {} => bounds = <<image.w \div 2, image.h \div 2, 0, 0>>

\* The detector has run on an image narrower than 4 whose scan from the
\* right found a column left of W/2, and on no other side a pixel.
C9_Witness ==
    /\ bounds # <<>>
    /\ image.w < 4
    /\ RightFinds(image) # {}
    /\ SetMax(RightFinds(image)) < image.w \div 2
    /\ bounds[1] = image.w \div 2
    /\ bounds[3] = 0

====
